---- MODULE Spec2Model ----
(***************************************************************************)
(* Model of the Berlin police feed harvester (main.go): the record store,  *)
(* the duplicate gate, the retrying metadata fetch, the harvest pass run   *)
(* by the collector callbacks, the ticker goroutine, the rendered feed     *)
(* documents and the HTTP handlers that read them.                         *)
(*                                                                         *)
(* Text is modelled as sequences: a title is a sequence of byte codes (it  *)
(* is hashed), other strings are sequences of string tokens.  Time is      *)
(* counted in months, the finest unit of Time.AddDate the program uses.    *)
(***************************************************************************)
EXTENDS Integers, Sequences, FiniteSets, TLC

\* ---------------------------------------------------------------- bounds
MaxInitRows == 2
MaxListing == 2
MaxTicks == 1
MaxBatch == 2
MaxResponses == 3

\* ------------------------------------------------------ program constants
\* the loop bound off by one
maxRetriesOneMore == 3 + 1
maxRetries == 3
RetentionYears == 5
AdlerMod == 65521

Placeholder == "Keine Beschreibung gefunden"
BaseOrigin == "https://www.berlin.de"
LocationPrefix == "Ereignisort: "

Formats == {"rss", "json", "atom"}

\* ------------------------------------------------------------ input sets
Clock == {72, 73}

\* ------------------------------------------------------------- utilities
SeqsUpTo(S, n) == UNION {[1..k -> S] : k \in 0..n}

\* slices.IndexFunc with the predicate "field equals value": the first
\* index (from 1) whose element has it, -1 when none has
IndexFunc(s, field, value) ==
  IF \E i \in 1..Len(s) : s[i][field] = value
  THEN CHOOSE i \in 1..Len(s) :
         s[i][field] = value /\ \A j \in 1..(i - 1) : s[j][field] # value
  ELSE -1

\* ------------------------------------------------------------ fingerprint
RECURSIVE DecimalDigits(_)
DecimalDigits(n) ==
  IF n < 10 THEN <<48 + n>> ELSE DecimalDigits(n \div 10) \o <<48 + (n % 10)>>

FormatInt(n) == IF n < 0 THEN <<45>> \o DecimalDigits(0 - n) ELSE DecimalDigits(n)

RECURSIVE AdlerFrom(_, _, _, _)
AdlerFrom(bytes, i, a, b) ==
  IF i > Len(bytes) THEN b * 65536 + a
  ELSE LET a2 == (a + bytes[i]) % AdlerMod
       IN  AdlerFrom(bytes, i + 1, a2, (b + a2) % AdlerMod)

Checksum(bytes) == AdlerFrom(bytes, 1, 1, 0)

HexDigit == <<"0", "1", "2", "3", "4", "5", "6", "7",
              "8", "9", "a", "b", "c", "d", "e", "f">>

RECURSIVE SprintfX(_)
SprintfX(n) ==
  IF n < 16 THEN <<HexDigit[n + 1]>>
  ELSE SprintfX(n \div 16) \o <<HexDigit[(n % 16) + 1]>>

\* []byte(event.Title + strconv.FormatInt(event.DateTime, 10))
HashInput(title, dateTime) == title \o FormatInt(dateTime)

HashOf(title, dateTime) == SprintfX(Checksum(HashInput(title, dateTime)))

\* ------------------------------------------------------------------ Event
Event(id, title, description, location, link, dateTime, hash, deleted) ==
  [ID |-> id, Title |-> title, Description |-> description,
   Location |-> location, Link |-> link, DateTime |-> dateTime,
   Hash |-> hash, Deleted |-> deleted]

Hashes(rows) == {rows[i].Hash : i \in 1..Len(rows)}

\* ------------------------------------------------------------ RecordStore
Visible(table) == SelectSeq(table, LAMBDA row : ~row.Deleted)

DbFind(table) == Visible(table)

DbFirst(table, hash, fault) ==
  IF fault THEN "error"
  ELSE IF \E i \in 1..Len(table) : ~table[i].Deleted /\ table[i].Hash = hash
       THEN "found"
       ELSE "ErrRecordNotFound"

\* Create without the unique index on Hash
DbCreateNoUnique(table, event, fault) ==
  IF fault THEN [table |-> table, err |-> "error", event |-> event]
  ELSE LET row == [event EXCEPT !.ID = Len(table) + 1]
       IN  [table |-> Append(table, row), err |-> "nil", event |-> row]

\* Create that overwrites the row holding the fingerprint (an upsert)
DbCreateOnConflictUpdate(table, event, fault) ==
  IF fault THEN [table |-> table, err |-> "error", event |-> event]
  ELSE IF \E i \in 1..Len(table) : table[i].Hash = event.Hash
       THEN LET i == CHOOSE k \in 1..Len(table) : table[k].Hash = event.Hash
                row == [event EXCEPT !.ID = i]
            IN  [table |-> [table EXCEPT ![i] = row], err |-> "nil", event |-> row]
       ELSE LET row == [event EXCEPT !.ID = Len(table) + 1]
            IN  [table |-> Append(table, row), err |-> "nil", event |-> row]

DbCreate(table, event, fault) ==
  IF fault THEN [table |-> table, err |-> "error", event |-> event]
  ELSE IF \E i \in 1..Len(table) : table[i].Hash = event.Hash
       THEN [table |-> table, err |-> "UNIQUE constraint failed", event |-> event]
       ELSE LET row == [event EXCEPT !.ID = Len(table) + 1]
            IN  [table |-> Append(table, row), err |-> "nil", event |-> row]

\* the range deletion with date_time <= ?
DbDeleteWhereNotAfter(table, cutoff) ==
  [i \in 1..Len(table) |->
     IF ~table[i].Deleted /\ table[i].DateTime <= cutoff
     THEN [table[i] EXCEPT !.Deleted = TRUE]
     ELSE table[i]]

DbDeleteWhereBefore(table, cutoff) ==
  [i \in 1..Len(table) |->
     IF ~table[i].Deleted /\ table[i].DateTime < cutoff
     THEN [table[i] EXCEPT !.Deleted = TRUE]
     ELSE table[i]]

\* ---------------------------------------------------------- DuplicateGate
\* the gate taking only a found record for a duplicate
checkDuplicateFoundOnly(event, table, events, fault) ==
  LET eventIdx == IndexFunc(events, "Hash", event.Hash)
  IN  IF eventIdx # -1
      THEN [dup |-> TRUE, err |-> "nil", queried |-> FALSE]
      ELSE IF DbFirst(table, event.Hash, fault) = "found"
           THEN [dup |-> TRUE, err |-> "nil", queried |-> TRUE]
           ELSE [dup |-> FALSE, err |-> "nil", queried |-> TRUE]

checkDuplicate(event, table, events, fault) ==
  LET eventIdx == IndexFunc(events, "Hash", event.Hash)
  IN  IF eventIdx # -1
      THEN [dup |-> TRUE, err |-> "nil", queried |-> FALSE]
      ELSE IF DbFirst(table, event.Hash, fault) = "ErrRecordNotFound"
           THEN [dup |-> FALSE, err |-> "nil", queried |-> TRUE]
           ELSE [dup |-> TRUE, err |-> "nil", queried |-> TRUE]

\* ---------------------------------------------------------------- pruning
\* Time.AddDate(years, months, 0), a time being a count of months
AddDate(t, years, months) == t + 12 * years + months

pruneEvents(table, now, fault) ==
  LET cutoff == AddDate(now, 0 - RetentionYears, 0)
  IN  IF fault
      THEN [table |-> table, lastTime |-> cutoff, err |-> "error"]
      ELSE [table |-> DbDeleteWhereBefore(table, cutoff),
            lastTime |-> cutoff, err |-> "nil"]

\* ------------------------------------------------------------- feed items
\* the item without an identifier
translateEventToItemNoId(event) ==
  [Id |-> <<>>,
   Title |-> event.Title,
   Link |-> event.Link,
   Description |-> event.Description \o <<"\n\nBezirk: ">> \o event.Location,
   Author |-> "Presseabteilung",
   Created |-> event.DateTime]

translateEventToItem(event) ==
  [Id |-> event.Hash,
   Title |-> event.Title,
   Link |-> event.Link,
   Description |-> event.Description \o <<"\n\nBezirk: ">> \o event.Location,
   Author |-> "Presseabteilung",
   Created |-> event.DateTime]

\* A Go string value is a data pointer and a length; the pointer is
\* identified with the document it points to.
EmptyDoc == [format |-> "", items |-> <<>>]
EmptyString == [data |-> EmptyDoc, len |-> 0]

DocLen(doc) == IF doc = EmptyDoc THEN 0 ELSE 1 + Len(doc.items)

Render(format, items, fault) ==
  IF fault
  THEN [str |-> EmptyString, err |-> "error"]
  ELSE LET doc == [format |-> format, items |-> items]
       IN  [str |-> [data |-> doc, len |-> DocLen(doc)], err |-> "nil"]

\* ----------------------------------------------------- MetadataExtractor
NilErr == [kind |-> "nil", status |-> 0, at |-> 0]

MetaElement(hasName, name, hasProperty, property, content) ==
  [hasName |-> hasName, name |-> name,
   hasProperty |-> hasProperty, property |-> property, content |-> content]

MetaTagOf(el) ==
  IF el.hasName THEN [Name |-> el.name, Content |-> el.content]
  ELSE IF el.hasProperty THEN [Name |-> el.property, Content |-> el.content]
       ELSE [Name |-> "", Content |-> ""]

\* The response the target gives to the i-th request; a script shorter
\* than the number of requests keeps answering with its last response.
ResponseAt(responses, i) ==
  IF i \in 1..Len(responses) THEN responses[i] ELSE responses[Len(responses)]

\* what one attempt makes of the response to its request: the error that
\* becomes lastErr, or NilErr when the attempt goes on to collect the tags
\* the attempt without the check of the document parse
AttemptErrorNoParseCheck(res, attempt) ==
  IF res.kind = "transport"
  THEN [kind |-> "transport", status |-> 0, at |-> attempt + 1]
  ELSE IF res.status # 200
  THEN [kind |-> "status", status |-> res.status, at |-> attempt + 1]
  ELSE NilErr

\* the attempt that takes every 2xx status for a success
AttemptErrorAny2xx(res, attempt) ==
  IF res.kind = "transport"
  THEN [kind |-> "transport", status |-> 0, at |-> attempt + 1]
  ELSE IF res.status \notin 200..299
  THEN [kind |-> "status", status |-> res.status, at |-> attempt + 1]
  ELSE IF ~res.parses
  THEN [kind |-> "parse", status |-> 0, at |-> attempt + 1]
  ELSE NilErr

AttemptError(res, attempt) ==
  IF res.kind = "transport"
  THEN [kind |-> "transport", status |-> 0, at |-> attempt + 1]
  ELSE IF res.status # 200
  THEN [kind |-> "status", status |-> res.status, at |-> attempt + 1]
  ELSE IF ~res.parses
  THEN [kind |-> "parse", status |-> 0, at |-> attempt + 1]
  ELSE NilErr

\* RateLimitedClient.Do: rateLimiter.Wait takes a token, then client.Do
RateLimitedClientDo(res) == [waited |-> TRUE, res |-> res]

\* globalClient.client.Do: the http.Client of the wrapper, called directly
ClientDo(res) == [waited |-> FALSE, res |-> res]

\* requests counts the requests sent, waits those of them that were sent
\* after a wait on the rate limiter
RECURSIVE extractLoop(_, _, _, _, _, _)
extractLoop(urlValid, responses, attempt, lastErr, requests, waits) ==
  IF ~(attempt < maxRetries)
  THEN [tags |-> <<>>, isNil |-> TRUE, requests |-> requests, waits |-> waits,
        err |-> [kind |-> "exhausted", status |-> maxRetries, at |-> attempt],
        last |-> lastErr]
  ELSE IF ~urlValid
  THEN [tags |-> <<>>, isNil |-> TRUE, requests |-> requests, waits |-> waits,
        err |-> [kind |-> "url", status |-> 0, at |-> attempt + 1],
        last |-> lastErr]
  ELSE LET sent == ClientDo(ResponseAt(responses, attempt + 1))
           res == sent.res
           waited == waits + (IF sent.waited THEN 1 ELSE 0)
           failure == AttemptError(res, attempt)
       IN  IF failure # NilErr
           THEN extractLoop(urlValid, responses, attempt + 1, failure,
                            requests + 1, waited)
           ELSE [tags |-> [i \in 1..Len(res.meta) |-> MetaTagOf(res.meta[i])],
                 isNil |-> FALSE, requests |-> requests + 1, waits |-> waited,
                 err |-> NilErr, last |-> lastErr]

extractMetaTags(urlValid, responses) ==
  extractLoop(urlValid, responses, 0, NilErr, 0, 0)

\* ------------------------------------------------------------ environment
TransportError == [kind |-> "transport", status |-> 0, parses |-> FALSE, meta |-> <<>>]
HttpResponse(status, parses, meta) ==
  [kind |-> "http", status |-> status, parses |-> parses, meta |-> meta]

DescriptionMeta == MetaElement(TRUE, "description", FALSE, "", <<"d">>)
OgTitleMeta == MetaElement(FALSE, "", TRUE, "og:title", <<"t">>)
CharsetMeta == MetaElement(FALSE, "", FALSE, "", <<>>)

\* one <li> of the listing: its date text (well formed, denoting unix, or
\* not), the text and href of its link, and its category text
Entry(dateOk, unix, title, href, category) ==
  [dateOk |-> dateOk, unix |-> unix, title |-> title, href |-> href,
   category |-> category]

\* The announcements the listing can show.  The first and the third differ
\* in title and time and have the same fingerprint ("a" + "12" = "a1" + "2").
Announcements ==
  {Entry(TRUE, 12, <<97>>, "/1", <<LocationPrefix, "Mitte">>),
   Entry(TRUE, 13, <<97>>, "/2", <<"Mitte">>),
   Entry(TRUE, 2, <<97, 49>>, "/3", <<LocationPrefix, "Pankow">>)}

Entries == Announcements \cup {Entry(FALSE, 0, <<97>>, "/4", <<"Mitte">>)}

\* the detail page behind a link
Page(href) ==
  CASE href = "/1" -> HttpResponse(200, TRUE, <<DescriptionMeta>>)
    [] href = "/2" -> HttpResponse(200, TRUE, <<CharsetMeta>>)
    [] OTHER -> HttpResponse(200, TRUE, <<OgTitleMeta, DescriptionMeta>>)

\* what a detail page answers to the successive requests of one fetch
PassScripts(href) ==
  {<<Page(href)>>, <<TransportError>>}

TrimPrefix(text, prefix) ==
  IF Len(text) > 0 /\ text[1] = prefix THEN Tail(text) ELSE text

\* the renderings that return an error in one rebuild: none, or one of them
RenderFaults == {{}} \cup {{f} : f \in Formats}

\* the body of the OnHTML callback up to the duplicate check
EventOf(e) ==
  Event(0, e.title, <<Placeholder>>, TrimPrefix(e.category, LocationPrefix),
        <<BaseOrigin, e.href>>, e.unix, HashOf(e.title, e.unix), FALSE)

\* the rest of the callback: the description taken from the meta tags
Describe(event, tags) ==
  LET descriptionIdx == IndexFunc(tags, "Name", "description")
  IN  IF descriptionIdx # -1
      THEN [event EXCEPT !.Description = tags[descriptionIdx].Content]
      ELSE event

\* what one run of the OnHTML callback did: whether the date parsed, what
\* the duplicate check said ("skipped" when it was not called), how many
\* requests extractMetaTags sent and whether it returned without error
Handled(dateOk, gate, requests, fetchOk) ==
  [dateOk |-> dateOk, gate |-> gate, requests |-> requests, fetchOk |-> fetchOk]

NoneHandled == Handled(FALSE, "none", 0, FALSE)

\* the callback that goes on with an entry whose date does not parse
OnHTMLCallbackNoDateCheck(e, fault, responses, table, evs, batch) ==
  LET event == EventOf(e)
      gate == checkDuplicate(event, table, evs, fault)
      fetched == extractMetaTags(TRUE, responses)
  IN  IF gate.dup
      THEN [newEvents |-> batch, last |-> Handled(e.dateOk, "dup", 0, FALSE)]
      ELSE IF fetched.err # NilErr
      THEN [newEvents |-> batch,
            last |-> Handled(e.dateOk, "new", fetched.requests, FALSE)]
      ELSE [newEvents |-> Append(batch, Describe(event, fetched.tags)),
            last |-> Handled(e.dateOk, "new", fetched.requests, TRUE)]

\* the callback that fetches the detail page before the duplicate check
OnHTMLCallbackFetchFirst(e, fault, responses, table, evs, batch) ==
  LET event == EventOf(e)
      gate == checkDuplicate(event, table, evs, fault)
      fetched == extractMetaTags(TRUE, responses)
  IN  IF ~e.dateOk
      THEN [newEvents |-> batch, last |-> Handled(FALSE, "skipped", 0, FALSE)]
      ELSE IF gate.dup
      THEN [newEvents |-> batch,
            last |-> Handled(TRUE, "dup", fetched.requests, FALSE)]
      ELSE IF fetched.err # NilErr
      THEN [newEvents |-> batch,
            last |-> Handled(TRUE, "new", fetched.requests, FALSE)]
      ELSE [newEvents |-> Append(batch, Describe(event, fetched.tags)),
            last |-> Handled(TRUE, "new", fetched.requests, TRUE)]

\* the whole OnHTML callback for entry e: the batch it leaves, and what it did
OnHTMLCallback(e, fault, responses, table, evs, batch) ==
  LET event == EventOf(e)
      gate == checkDuplicate(event, table, evs, fault)
      fetched == extractMetaTags(TRUE, responses)
  IN  IF ~e.dateOk
      THEN [newEvents |-> batch, last |-> Handled(FALSE, "skipped", 0, FALSE)]
      ELSE IF gate.dup
      THEN [newEvents |-> batch, last |-> Handled(TRUE, "dup", 0, FALSE)]
      ELSE IF fetched.err # NilErr
      THEN [newEvents |-> batch,
            last |-> Handled(TRUE, "new", fetched.requests, FALSE)]
      ELSE [newEvents |-> Append(batch, Describe(event, fetched.tags)),
            last |-> Handled(TRUE, "new", fetched.requests, TRUE)]

\* rows a previous run of the program can have left in the database file:
\* the records it creates for the announcements; a soft-deleted row was
\* older than the horizon of an earlier clock
StoredRows ==
  {[Describe(EventOf(e), extractMetaTags(TRUE, <<Page(e.href)>>).tags)
      EXCEPT !.Deleted = del] : e \in Announcements, del \in BOOLEAN}

InitStores ==
  {[i \in 1..Len(s) |-> [s[i] EXCEPT !.ID = i]] :
     s \in {q \in SeqsUpTo(StoredRows, MaxInitRows) :
              /\ \A i, j \in 1..Len(q) : i # j => q[i].Hash # q[j].Hash
              /\ \A i \in 1..Len(q) :
                   q[i].Deleted =>
                     \A n \in Clock : q[i].DateTime < AddDate(n, 0 - RetentionYears, 0)}}

\* ------------------------------------------------------------------ state
VARIABLES
  pc,          \* position of main()
  tpc,         \* position of the ticker goroutine
  exitCause,   \* what log.Fatal ended the process with, "none" while it runs
  db,          \* the events table, soft-deleted rows included
  now,         \* the time.Now() pruneEvents read
  lastTime,    \* the cutoff pruneEvents computed
  err,         \* main's err variable after a Visit
  commitLog,   \* the db.Create errors logged since the last Visit began
  events,      \* main's events slice
  feedItems,   \* feed.Items
  feedRSS, feedJSON, feedAtom,   \* the rendered documents
  renderErr,   \* formats whose last rendering returned an error
  newEvents,   \* the batch accepted by the pass in progress
  pass,        \* the collector: phase, who called Visit, entries handled,
               \* and what the last OnHTML callback did
  passes,      \* completed harvest passes
  ticks,       \* ticks delivered
  req,         \* the feed handler in progress and what it has loaded
  call, ret    \* a direct call of one function and its result

vars == <<pc, tpc, exitCause, db, now, lastTime, err, commitLog, events,
          feedItems, feedRSS, feedJSON, feedAtom, renderErr, newEvents, pass,
          passes, ticks, req, call, ret>>

IdlePass == [phase |-> "idle", by |-> "none", seen |-> 0, last |-> NoneHandled]
NoRequest == [path |-> "", step |-> "idle", first |-> "", str |-> EmptyString]
NoCall == [fn |-> "none"]
NoRet == [none |-> TRUE]

Init ==
  /\ pc = "start"
  /\ tpc = "none"
  /\ exitCause = "none"
  /\ db \in InitStores
  /\ now = 0
  /\ lastTime = 0
  /\ err = "nil"
  /\ commitLog = {}
  /\ events = <<>>
  /\ feedItems = <<>>
  /\ feedRSS = EmptyString
  /\ feedJSON = EmptyString
  /\ feedAtom = EmptyString
  /\ renderErr = {}
  /\ newEvents = <<>>
  /\ pass = IdlePass
  /\ passes = 0
  /\ ticks = 0
  /\ req = NoRequest
  /\ call = NoCall
  /\ ret = NoRet

Running == exitCause = "none"

pruneVars == <<now, lastTime>>
feedVars == <<feedItems, feedRSS, feedJSON, feedAtom, renderErr>>
unitVars == <<call, ret>>

\* log.Fatal: the process ends
Fatal(cause) ==
  /\ exitCause' = cause
  /\ UNCHANGED <<pc, tpc, db, pruneVars, err, commitLog, events, feedVars,
                 newEvents, pass, passes, ticks, req, unitVars>>

\* ---------------------------------------------------------------- startup
\* gorm.Open and AutoMigrate
OpenStore ==
  /\ Running /\ pc = "start"
  /\ \E ok \in BOOLEAN :
       IF ok
       THEN /\ pc' = "opened"
            /\ UNCHANGED <<tpc, exitCause, db, pruneVars, err, commitLog,
                           events, feedVars, newEvents, pass, passes, ticks,
                           req, unitVars>>
       ELSE Fatal("store")

\* err = pruneEvents(db); if err != nil { log.Fatal(err) }
PruneAtStartup ==
  /\ Running /\ pc = "opened"
  /\ \E t \in Clock, fault \in BOOLEAN :
       LET r == pruneEvents(db, t, fault)
       IN  /\ now' = t
           /\ db' = r.table
           /\ lastTime' = r.lastTime
           /\ IF r.err # "nil"
              THEN exitCause' = "store" /\ pc' = pc
              ELSE exitCause' = exitCause /\ pc' = "pruned"
  /\ UNCHANGED <<tpc, err, commitLog, events, feedVars, newEvents, pass,
                 passes, ticks, req, unitVars>>

\* feed := ...; db.Find(&events); feed.Add each; the three renderings
BuildFeed ==
  /\ Running /\ pc = "pruned"
  /\ LET found == DbFind(db)
         items == [i \in 1..Len(found) |-> translateEventToItem(found[i])]
     IN  /\ events' = found
         /\ feedItems' = items
         /\ \E faults \in RenderFaults :
              /\ feedRSS' = Render("rss", items, "rss" \in faults).str
              /\ feedJSON' = Render("json", items, "json" \in faults).str
              /\ feedAtom' = Render("atom", items, "atom" \in faults).str
              /\ renderErr' = faults
  /\ pc' = "built"
  /\ UNCHANGED <<tpc, exitCause, db, pruneVars, err, commitLog, newEvents,
                 pass, passes, ticks, req, unitVars>>

\* ----------------------------------------------------------- harvest pass
\* err = mainCollector.Visit(policeURL); if err != nil { log.Fatal(err) }:
\* the listing is fetched and the callbacks run, or Visit returns an error
VisitListing(by, ok) ==
  IF ok
  THEN /\ pass' = [phase |-> "html", by |-> by, seen |-> 0, last |-> NoneHandled]
       /\ err' = "nil"
       /\ commitLog' = {}
       /\ exitCause' = exitCause
  ELSE /\ pass' = pass
       /\ commitLog' = commitLog
       /\ err' = "visit"
       /\ exitCause' = "visit"

\* the Visit in main, before the ticker and the server exist
VisitAtStartup ==
  /\ Running /\ pc = "built" /\ pass.phase = "idle"
  /\ \E ok \in BOOLEAN :
       /\ VisitListing("main", ok)
       /\ pc' = IF ok THEN "visiting" ELSE pc
  /\ UNCHANGED <<tpc, db, pruneVars, events, feedVars, newEvents,
                 passes, ticks, req, unitVars>>

\* the OnHTML callback for one listing entry
OnHTML ==
  /\ Running /\ pass.phase = "html" /\ pass.seen < MaxListing
  /\ \E e \in Entries, fault \in BOOLEAN :
     \E responses \in PassScripts(e.href) :
       LET done == OnHTMLCallback(e, fault, responses, db, events, newEvents)
       IN  /\ newEvents' = done.newEvents
           /\ pass' = [pass EXCEPT !.seen = pass.seen + 1, !.last = done.last]
  /\ UNCHANGED <<pc, tpc, exitCause, db, pruneVars, err, commitLog, events,
                 feedVars, passes, ticks, req, unitVars>>

\* the loop that ends at the first db.Create that fails
RECURSIVE CommitFromAbort(_, _, _, _, _, _, _)
CommitFromAbort(batch, i, faults, table, items, evs, log) ==
  IF i > Len(batch)
  THEN [table |-> table, items |-> items, events |-> evs, log |-> log]
  ELSE LET c == DbCreate(table, batch[i], i \in faults)
       IN  IF c.err # "nil"
           THEN [table |-> table, items |-> items, events |-> evs,
                 log |-> log \cup {c.err}]
           ELSE CommitFromAbort(batch, i + 1, faults, c.table,
                                Append(items, translateEventToItem(c.event)),
                                Append(evs, c.event), log)

\* the loop of OnScraped: db.Create, and on success feed.Add and append
RECURSIVE CommitFrom(_, _, _, _, _, _, _)
CommitFrom(batch, i, faults, table, items, evs, log) ==
  IF i > Len(batch)
  THEN [table |-> table, items |-> items, events |-> evs, log |-> log]
  ELSE LET c == DbCreate(table, batch[i], i \in faults)
       IN  IF c.err # "nil"
           THEN CommitFrom(batch, i + 1, faults, table, items, evs,
                           log \cup {c.err})
           ELSE CommitFrom(batch, i + 1, faults, c.table,
                           Append(items, translateEventToItem(c.event)),
                           Append(evs, c.event), log)

\* the OnScraped callback
OnScraped ==
  /\ Running /\ pass.phase = "html"
  /\ \E faults \in SUBSET (1..Len(newEvents)), rfaults \in RenderFaults :
       LET c == CommitFrom(newEvents, 1, faults, db, feedItems, events, {})
       IN  /\ db' = c.table
           /\ feedItems' = c.items
           /\ events' = c.events
           /\ commitLog' = c.log
           /\ IF Len(newEvents) > 0
              THEN /\ feedRSS' = Render("rss", c.items, "rss" \in rfaults).str
                   /\ feedJSON' = Render("json", c.items, "json" \in rfaults).str
                   /\ feedAtom' = Render("atom", c.items, "atom" \in rfaults).str
                   /\ renderErr' = rfaults
              ELSE /\ rfaults = {}
                   /\ UNCHANGED <<feedRSS, feedJSON, feedAtom, renderErr>>
  /\ newEvents' = <<>>
  /\ passes' = passes + 1
  /\ pass' = IdlePass
  /\ pc' = IF pass.by = "main" THEN "visited" ELSE pc
  /\ tpc' = IF pass.by = "ticker" THEN "waiting" ELSE tpc
  /\ UNCHANGED <<exitCause, pruneVars, err, ticks, req, unitVars>>

\* ------------------------------------------------------------- scheduler
\* the ticker started while the Visit of main is still running, as it
\* would be with an asynchronous collector
StartTickerDuringVisit ==
  /\ Running /\ pc \in {"visiting", "visited"}
  /\ pc' = "registered"
  /\ tpc' = "waiting"
  /\ UNCHANGED <<exitCause, db, pruneVars, err, commitLog, events, feedVars,
                 newEvents, pass, passes, ticks, req, unitVars>>

\* ticker := time.NewTicker; go func() {...}(); the HandleFunc registrations
StartTicker ==
  /\ Running /\ pc = "visited"
  /\ pc' = "registered"
  /\ tpc' = "waiting"
  /\ UNCHANGED <<exitCause, db, pruneVars, err, commitLog, events, feedVars,
                 newEvents, pass, passes, ticks, req, unitVars>>

\* case <-ticker.C: the Visit of the ticker goroutine.  The other case of
\* the select, <-quit, is never ready: quit is a local of main that only
\* this goroutine holds, and nothing sends on it or closes it.
Tick ==
  /\ Running /\ tpc = "waiting" /\ ticks < MaxTicks /\ pass.phase = "idle"
  /\ ticks' = ticks + 1
  /\ \E ok \in BOOLEAN :
       /\ VisitListing("ticker", ok)
       /\ tpc' = IF ok THEN "visiting" ELSE tpc
  /\ UNCHANGED <<pc, db, pruneVars, events, feedVars, newEvents,
                 passes, req, unitVars>>

\* ---------------------------------------------------------------- serving
\* the server started before the first Visit
ListenBeforeVisit ==
  /\ Running /\ pc = "built"
  /\ \E ok \in BOOLEAN :
       IF ok
       THEN /\ pc' = "serving"
            /\ UNCHANGED <<tpc, exitCause, db, pruneVars, err, commitLog,
                           events, feedVars, newEvents, pass, passes, ticks,
                           req, unitVars>>
       ELSE Fatal("listen")

\* err = http.ListenAndServe(...): serves, or fails and log.Fatal
ListenAndServe ==
  /\ Running /\ pc = "registered"
  /\ \E ok \in BOOLEAN :
       IF ok
       THEN /\ pc' = "serving"
            /\ UNCHANGED <<tpc, exitCause, db, pruneVars, err, commitLog,
                           events, feedVars, newEvents, pass, passes, ticks,
                           req, unitVars>>
       ELSE Fatal("listen")

FeedVar(path) ==
  CASE path = "rss" -> feedRSS
    [] path = "json" -> feedJSON
    [] path = "atom" -> feedAtom

\* A handler evaluates feedX for io.WriteString(w, feedX): it loads the two
\* words of the string variable one after the other, in either order;
\* nothing orders the loads against the stores of a pass.
HandlerLoadFirst ==
  /\ Running /\ pc = "serving" /\ req.step = "idle"
  /\ \E path \in Formats, first \in {"data", "len"} :
       req' = [path |-> path, step |-> "loading", first |-> first,
               str |-> IF first = "data"
                       THEN [data |-> FeedVar(path).data, len |-> 0]
                       ELSE [data |-> EmptyDoc, len |-> FeedVar(path).len]]
  /\ UNCHANGED <<pc, tpc, exitCause, db, pruneVars, err, commitLog, events,
                 feedVars, newEvents, pass, passes, ticks, unitVars>>

\* the handler loads the other word and writes the value as the response
HandlerLoadSecond ==
  /\ Running /\ req.step = "loading"
  /\ req' = [req EXCEPT
               !.step = "written",
               !.str = IF req.first = "data"
                       THEN [data |-> req.str.data, len |-> FeedVar(req.path).len]
                       ELSE [data |-> FeedVar(req.path).data, len |-> req.str.len]]
  /\ UNCHANGED <<pc, tpc, exitCause, db, pruneVars, err, commitLog, events,
                 feedVars, newEvents, pass, passes, ticks, unitVars>>

\* the handler returns
HandlerReturn ==
  /\ Running /\ req.step = "written"
  /\ req' = NoRequest
  /\ UNCHANGED <<pc, tpc, exitCause, db, pruneVars, err, commitLog, events,
                 feedVars, newEvents, pass, passes, ticks, unitVars>>

Next ==
  \/ OpenStore
  \/ PruneAtStartup
  \/ BuildFeed
  \/ VisitAtStartup
  \/ OnHTML
  \/ OnScraped
  \/ StartTicker
  \/ Tick
  \/ ListenAndServe
  \/ HandlerLoadFirst
  \/ HandlerLoadSecond
  \/ HandlerReturn

Spec == Init /\ [][Next]_vars

\* ------------------------------------------------- direct calls (as in tests)
\* responses a test server can give
UnitResponses ==
  {TransportError,
   HttpResponse(200, TRUE, <<DescriptionMeta>>),
   HttpResponse(200, TRUE, <<OgTitleMeta, CharsetMeta>>),
   HttpResponse(200, FALSE, <<>>),
   HttpResponse(204, TRUE, <<DescriptionMeta>>),
   HttpResponse(429, TRUE, <<>>),
   HttpResponse(500, TRUE, <<>>)}

GateBatches ==
  SeqsUpTo({r \in StoredRows : ~r.Deleted}, MaxBatch)

MainIdle ==
  /\ pc = "start"
  /\ tpc = "none"
  /\ exitCause = "none"
  /\ now = 0
  /\ lastTime = 0
  /\ err = "nil"
  /\ commitLog = {}
  /\ feedItems = <<>>
  /\ feedRSS = EmptyString
  /\ feedJSON = EmptyString
  /\ feedAtom = EmptyString
  /\ renderErr = {}
  /\ newEvents = <<>>
  /\ pass = IdlePass
  /\ passes = 0
  /\ ticks = 0
  /\ req = NoRequest

mainVars == <<pc, tpc, exitCause, db, now, lastTime, err, commitLog, events,
              feedItems, feedRSS, feedJSON, feedAtom, renderErr, newEvents,
              pass, passes, ticks, req>>

\* checkDuplicate(ev, db, &events) on a store and a batch
GateInit ==
  /\ MainIdle
  /\ db \in InitStores
  /\ events \in GateBatches
  /\ call \in {[fn |-> "checkDuplicate", event |-> EventOf(e), fault |-> f] :
                 e \in Announcements, f \in BOOLEAN}
  /\ ret = NoRet

CallCheckDuplicate ==
  /\ call.fn = "checkDuplicate" /\ ret = NoRet
  /\ ret' = checkDuplicate(call.event, db, events, call.fault)
  /\ UNCHANGED <<mainVars, call>>

GateNext == CallCheckDuplicate

SpecGate == GateInit /\ [][GateNext]_vars

\* extractMetaTags(url) against a server that answers by a script
FetchInit ==
  /\ MainIdle
  /\ db = <<>>
  /\ events = <<>>
  /\ call \in {[fn |-> "extractMetaTags", urlValid |-> u, responses |-> r] :
                 u \in BOOLEAN, r \in [1..MaxResponses -> UnitResponses]}
  /\ ret = NoRet

CallExtractMetaTags ==
  /\ call.fn = "extractMetaTags" /\ ret = NoRet
  /\ ret' = extractMetaTags(call.urlValid, call.responses)
  /\ UNCHANGED <<mainVars, call>>

FetchNext == CallExtractMetaTags

SpecFetch == FetchInit /\ [][FetchNext]_vars

\* the loop of OnScraped on a store and a batch, some inserts failing
CommitBatches ==
  SeqsUpTo({Describe(EventOf(e), extractMetaTags(TRUE, <<Page(e.href)>>).tags) :
              e \in Announcements}, MaxBatch)

CommitInit ==
  /\ MainIdle
  /\ db \in InitStores
  /\ events = <<>>
  /\ call \in {[fn |-> "OnScraped", batch |-> b, faults |-> f] :
                 b \in CommitBatches, f \in SUBSET (1..MaxBatch)}
  /\ \A i \in call.faults : i <= Len(call.batch)
  /\ ret = NoRet

CallOnScrapedLoop ==
  /\ call.fn = "OnScraped" /\ ret = NoRet
  /\ ret' = CommitFrom(call.batch, 1, call.faults, db, feedItems, events, {})
  /\ UNCHANGED <<mainVars, call>>

CommitNext == CallOnScrapedLoop

SpecCommit == CommitInit /\ [][CommitNext]_vars

\* the fingerprints of two entries
HashTitles == {<<97>>, <<97, 49>>, <<98>>}
HashTimes == {2, 12, 13}

HashInit ==
  /\ MainIdle
  /\ db = <<>>
  /\ events = <<>>
  /\ call \in {[fn |-> "hash", first |-> [title |-> t1, dateTime |-> d1],
                 second |-> [title |-> t2, dateTime |-> d2]] :
                 t1 \in HashTitles, d1 \in HashTimes,
                 t2 \in HashTitles, d2 \in HashTimes}
  /\ ret = NoRet

CallHash ==
  /\ call.fn = "hash" /\ ret = NoRet
  /\ ret' = [firstInput |-> HashInput(call.first.title, call.first.dateTime),
             secondInput |-> HashInput(call.second.title, call.second.dateTime),
             firstHash |-> HashOf(call.first.title, call.first.dateTime),
             secondHash |-> HashOf(call.second.title, call.second.dateTime)]
  /\ UNCHANGED <<mainVars, call>>

HashNext == CallHash

SpecHash == HashInit /\ [][HashNext]_vars

\* ================================================================ claims

\* C1: after any sequence of harvest passes no two records in the store
\* (soft-deleted rows included) have the same fingerprint.
C1_UniqueFingerprints ==
  \A i, j \in 1..Len(db) : i # j => db[i].Hash # db[j].Hash

\* a pass has committed a batch of which one record repeated a fingerprint
C1_Witness ==
  /\ passes >= 1
  /\ "UNIQUE constraint failed" \in commitLog
  /\ Len(db) >= 2

\* C2: the value a feed handler reads while a rebuild runs is a whole
\* document: its length is the length of the data it points to.
C2_ReaderSeesWholeDocument ==
  req.step = "written" => req.str.len = DocLen(req.str.data)

\* C3: a Visit that returns an error does not terminate the process.
C3_PassFailureKeepsRunning ==
  err = "visit" => Running

\* C4: when rendering a format fails during the rebuild of a pass, the
\* document of that format stays the previously rendered one.
C4_FailedRenderKeepsDocument ==
  [][(pass.phase = "html" /\ pass'.phase = "idle" /\ Len(newEvents) > 0)
       => /\ ("rss" \in renderErr' => feedRSS' = feedRSS)
          /\ ("json" \in renderErr' => feedJSON' = feedJSON)
          /\ ("atom" \in renderErr' => feedAtom' = feedAtom)]_vars

\* C5: checkDuplicate answers true without a query when the batch holds the
\* fingerprint; otherwise it queries, answers false exactly when the store
\* reports record-not-found and true otherwise; its error is always nil.
C5_CheckDuplicate ==
  ret # NoRet =>
    LET h == call.event.Hash
        inBatch == \E i \in 1..Len(events) : events[i].Hash = h
        notFound == /\ ~call.fault
                    /\ ~\E i \in 1..Len(db) : ~db[i].Deleted /\ db[i].Hash = h
    IN  /\ ret.err = "nil"
        /\ inBatch => ret.dup /\ ~ret.queried
        /\ ~inBatch => ret.queried /\ (ret.dup <=> ~notFound)

\* the fingerprint is in the store and not in the batch
C5_Witness ==
  /\ ret # NoRet
  /\ ~\E i \in 1..Len(events) : events[i].Hash = call.event.Hash
  /\ \E i \in 1..Len(db) : ~db[i].Deleted /\ db[i].Hash = call.event.Hash
  /\ ~call.fault
  /\ ret.dup /\ ret.queried

\* C6: after startup and after every completed pass the item identifiers
\* of each feed document are the fingerprints of the visible records, each
\* once.
C6_FeedMatchesStore ==
  (pc \in {"built", "visited", "registered", "serving"} /\ pass.phase = "idle")
    => \A f \in Formats :
         LET items == FeedVar(f).data.items
         IN  /\ {items[i].Id : i \in 1..Len(items)} = Hashes(Visible(db))
             /\ Len(items) = Len(Visible(db))

Succeeds(r) == r.kind = "http" /\ r.status = 200 /\ r.parses

\* C7: against a target that fails every attempt extractMetaTags issues
\* exactly 3 requests and returns no tags and an error carrying the last
\* underlying error.
C7_RetryExhaustion ==
  (ret # NoRet /\ call.urlValid
     /\ \A i \in 1..Len(call.responses) : ~Succeeds(call.responses[i]))
    => /\ ret.requests = 3
       /\ ret.isNil /\ ret.tags = <<>>
       /\ ret.err.kind = "exhausted"
       /\ ret.last.at = 3
       /\ LET r == ResponseAt(call.responses, 3)
          IN  ret.last.kind = (IF r.kind = "transport" THEN "transport"
                               ELSE IF r.status # 200 THEN "status"
                               ELSE "parse")
       /\ ret.last.kind = "status" => ret.last.status = ResponseAt(call.responses, 3).status

\* three failed attempts of three different kinds
C7_Witness ==
  /\ ret # NoRet /\ call.urlValid
  /\ call.responses[1].kind = "transport"
  /\ call.responses[2].status = 429
  /\ call.responses[3].status = 500
  /\ ret.requests = 3 /\ ret.last.status = 500

FirstSuccess(responses) ==
  IF \E k \in 1..3 : Succeeds(ResponseAt(responses, k))
  THEN CHOOSE k \in 1..3 :
         /\ Succeeds(ResponseAt(responses, k))
         /\ \A j \in 1..(k - 1) : ~Succeeds(ResponseAt(responses, j))
  ELSE 0

\* C8: when attempt k (1 <= k <= 3) is the first to succeed, exactly k
\* requests are issued and the tags of the k-th response are returned with a
\* nil error.
C8_FirstSuccessStops ==
  (ret # NoRet /\ call.urlValid /\ FirstSuccess(call.responses) # 0)
    => LET k == FirstSuccess(call.responses)
           meta == ResponseAt(call.responses, k).meta
       IN  /\ ret.requests = k
           /\ ret.err = NilErr
           /\ ~ret.isNil
           /\ Len(ret.tags) = Len(meta)
           /\ \A i \in 1..Len(meta) :
                /\ ret.tags[i].Content =
                     (IF meta[i].hasName \/ meta[i].hasProperty
                      THEN meta[i].content ELSE "")
                /\ ret.tags[i].Name =
                     (IF meta[i].hasName THEN meta[i].name
                      ELSE IF meta[i].hasProperty THEN meta[i].property ELSE "")

\* fail, then succeed: two requests and the tags of the second response
C8_Witness ==
  /\ ret # NoRet /\ call.urlValid
  /\ call.responses[1].status = 500
  /\ Succeeds(call.responses[2])
  /\ call.responses[2].meta = <<DescriptionMeta>>
  /\ ret.requests = 2
  /\ ret.tags = <<[Name |-> "description", Content |-> <<"d">>]>>

\* C9: a pruneEvents that returns no error soft-deletes exactly the rows
\* whose timestamp is before the cutoff (now minus the horizon): rows at or
\* after the cutoff are unchanged, rows before it are no longer visible.
C9_PruneExact ==
  [][(pc = "opened" /\ pc' = "pruned")
       => /\ lastTime' = now' - 12 * RetentionYears
          /\ Len(db') = Len(db)
          /\ \A i \in 1..Len(db) :
               /\ db[i].DateTime >= lastTime' => db'[i] = db[i]
               /\ db[i].DateTime < lastTime' =>
                    db'[i] = [db[i] EXCEPT !.Deleted = TRUE]]_vars

\* the prune has deleted a row one unit below the cutoff and kept the row
\* whose timestamp is the cutoff
C9_Witness ==
  /\ pc = "pruned"
  /\ \E i \in 1..Len(db) : db[i].Deleted /\ db[i].DateTime = lastTime - 1
  /\ \E i \in 1..Len(db) : ~db[i].Deleted /\ db[i].DateTime = lastTime

\* C10: no feed request is served before pass 0 has completed.
C10_ServeAfterPassZero ==
  (pc = "serving" \/ req.step # "idle")
    => passes >= 1 /\ ~(pass.phase = "html" /\ pass.by = "main")

\* a handler has written a document that holds what pass 0 committed
C10_Witness ==
  /\ req.step = "written"
  /\ passes = 1 /\ ticks = 0
  /\ Len(req.str.data.items) > 0
  /\ lastTime > 0

\* C11: every feed item is the translation of its record: identifier the
\* fingerprint, title, link and creation time the record's, description the
\* record's description, a blank line and the labelled location.
C11_ItemOfRecord ==
  /\ Len(feedItems) = Len(events)
  /\ \A i \in 1..Len(events) :
       /\ feedItems[i].Id = events[i].Hash
       /\ feedItems[i].Title = events[i].Title
       /\ feedItems[i].Link = events[i].Link
       /\ feedItems[i].Created = events[i].DateTime
       /\ LET n == Len(events[i].Description)
              d == feedItems[i].Description
          IN  /\ SubSeq(d, 1, n) = events[i].Description
              /\ d[n + 1] = "\n\nBezirk: "
              /\ SubSeq(d, n + 2, Len(d)) = events[i].Location

\* the feed holds the item of a record a pass has described and committed
C11_Witness ==
  /\ passes >= 1
  /\ \E i \in 1..Len(feedItems) :
       /\ feedItems[i].Description = <<"d", "\n\nBezirk: ", "Pankow">>
       /\ feedItems[i].Created = 2
       /\ events[i].ID = Len(db)

\* C12: entries older than 6 months are pruned, the cutoff pruneEvents
\* applies is 6 months before the current time.
C12_SixMonths ==
  now # 0 => lastTime = now - 6

\* one OnHTML callback has run between the two states of a step
OnHTMLStep == pass'.seen = pass.seen + 1

\* C13: an entry whose fingerprint was accepted earlier in the same pass is
\* reported duplicate by the gate, so the batch of a pass never holds two
\* records with the same fingerprint.
C13_GateSeesBatch ==
  \A i, j \in 1..Len(newEvents) :
    i # j => newEvents[i].Hash # newEvents[j].Hash

\* C14: an entry that passed the duplicate gate and whose extractMetaTags
\* failed is still accepted into the batch, its description the placeholder.
C14_FailedFetchAccepted ==
  [][(OnHTMLStep /\ pass'.last.gate = "new" /\ ~pass'.last.fetchOk)
       => /\ Len(newEvents') = Len(newEvents) + 1
          /\ newEvents'[Len(newEvents')].Description = <<Placeholder>>]_vars

\* C15: every request extractMetaTags sends was preceded by a wait on the
\* global rate limiter.
C15_EveryRequestWaits ==
  (call.fn = "extractMetaTags" /\ ret # NoRet) => ret.waits = ret.requests

\* C19: for an entry whose date does not parse the callback makes no
\* duplicate check and no request, and leaves the batch, the store and the
\* feed as they were; the pass goes on with the other entries.
C19_MalformedDateSkipped ==
  [][(OnHTMLStep /\ ~pass'.last.dateOk)
       => /\ pass'.last.gate = "skipped"
          /\ pass'.last.requests = 0
          /\ newEvents' = newEvents
          /\ pass'.phase = "html"
          /\ UNCHANGED <<db, events, feedItems, err, exitCause, commitLog>>]_vars

\* an entry with a malformed date was skipped after another was accepted
C19_Witness ==
  /\ pass.phase = "html" /\ pass.seen = 2
  /\ ~pass.last.dateOk /\ pass.last.gate = "skipped"
  /\ Len(newEvents) = 1

\* C20: for an entry the gate reports duplicate the callback sends no
\* request, adds nothing to the batch (so nothing is inserted and no item
\* added for it) and raises no error.
C20_DuplicateSkipped ==
  [][(OnHTMLStep /\ pass'.last.gate = "dup")
       => /\ pass'.last.requests = 0
          /\ newEvents' = newEvents
          /\ pass'.phase = "html"
          /\ UNCHANGED <<db, events, feedItems, err, exitCause, commitLog>>]_vars

\* the gate reported an entry duplicate whose record is in the store
C20_Witness ==
  /\ pass.phase = "html" /\ pass.seen >= 1
  /\ pass.last.gate = "dup"
  /\ Len(Visible(db)) >= 1

\* C16 as claimed: an attempt answered with any 2xx status is the last one
\* and the call succeeds; an attempt answered with another status or a
\* transport error is followed by another while fewer than 3 were made.
C16_Any2xxSucceeds ==
  (call.fn = "extractMetaTags" /\ ret # NoRet /\ call.urlValid)
    => \A i \in 1..ret.requests :
         LET r == call.responses[i]
         IN  /\ (r.kind = "http" /\ r.status \in 200..299 /\ r.parses)
                  => ret.requests = i /\ ret.err = NilErr
             /\ (r.kind = "transport" \/ r.status \notin 200..299)
                  => (i < 3 => ret.requests > i)

\* C16 as amended: only status 200 is a success; an attempt answered with
\* any other status, 2xx included, or a transport error is followed by
\* another while fewer than 3 were made.
C16_Only200Succeeds ==
  (call.fn = "extractMetaTags" /\ ret # NoRet /\ call.urlValid)
    => \A i \in 1..ret.requests :
         LET r == call.responses[i]
         IN  /\ (r.kind = "http" /\ r.status = 200 /\ r.parses)
                  => ret.requests = i /\ ret.err = NilErr
             /\ (r.kind = "transport" \/ r.status # 200)
                  => /\ i < 3 => ret.requests > i
                     /\ i = 3 => ret.err.kind = "exhausted"

\* a 204 was retried and the second attempt, answered 200, succeeded
C16_Witness ==
  /\ call.fn = "extractMetaTags" /\ ret # NoRet /\ call.urlValid
  /\ call.responses[1].kind = "http" /\ call.responses[1].status = 204
  /\ ret.requests = 2 /\ ret.err = NilErr

\* C18: in the commit loop a record whose insert fails is skipped alone:
\* the table only grows, every record of the batch whose insert was not
\* failed is in the table afterwards whatever happened to the records before
\* it, and the feed gains exactly the items of the rows inserted.
C18_FailedInsertSkipped ==
  (call.fn = "OnScraped" /\ ret # NoRet)
    => LET n == Len(db)
           k == Len(ret.table) - n
       IN  /\ k >= 0 /\ SubSeq(ret.table, 1, n) = db
           /\ \A i \in 1..Len(call.batch) :
                i \notin call.faults => call.batch[i].Hash \in Hashes(ret.table)
           /\ \A i \in 1..Len(call.batch) :
                (i \in call.faults /\ call.batch[i].Hash \notin Hashes(db)
                   /\ \A j \in 1..Len(call.batch) :
                        call.batch[j].Hash = call.batch[i].Hash => j \in call.faults)
                  => /\ call.batch[i].Hash \notin Hashes(ret.table)
                     /\ \A j \in 1..Len(ret.items) :
                          ret.items[j].Id # call.batch[i].Hash
           /\ Len(ret.items) = k
           /\ \A j \in 1..k :
                /\ ret.items[j].Id = ret.table[n + j].Hash
                /\ ret.items[j].Title = ret.table[n + j].Title
           /\ (k < Len(call.batch)) <=> (ret.log # {})

\* the first insert of a batch of two failed and the second record was
\* inserted and added to the feed
C18_Witness ==
  /\ call.fn = "OnScraped" /\ ret # NoRet
  /\ Len(call.batch) = 2 /\ call.faults = {1}
  /\ Len(ret.table) = Len(db) + 1
  /\ Len(ret.items) = 1
  /\ ret.items[1].Id = call.batch[2].Hash
  /\ call.batch[1].Hash # call.batch[2].Hash

\* C21: two different (title, timestamp) pairs give different inputs to
\* the checksum, and the same pair gives the same fingerprint.
C21_DistinctPairsDistinctInputs ==
  (call.fn = "hash" /\ ret # NoRet)
    => /\ call.first # call.second => ret.firstInput # ret.secondInput
       /\ call.first = call.second => ret.firstHash = ret.secondHash

\* C22: no step of a harvest pass modifies or deletes a row that was in the
\* table before the step: the table only grows at its end.
C22_PassOnlyAdds ==
  [][(pass.phase = "html" \/ pass'.phase = "html")
       => /\ Len(db') >= Len(db)
          /\ \A i \in 1..Len(db) :
               /\ db'[i].Title = db[i].Title
               /\ db'[i].Description = db[i].Description
               /\ db'[i].Location = db[i].Location
               /\ db'[i].Link = db[i].Link
               /\ db'[i].DateTime = db[i].DateTime
               /\ db'[i].Hash = db[i].Hash
               /\ db'[i].Deleted = db[i].Deleted]_vars

\* a pass has inserted a record behind a row that was there before it, and
\* an insert of the pass met the fingerprint of a row
C22_Witness ==
  /\ passes >= 1 /\ pass.phase = "idle"
  /\ "UNIQUE constraint failed" \in commitLog
  /\ \E i \in 2..Len(db) : ~db[i].Deleted /\ db[i].DateTime < lastTime

\* C23: at most one harvest pass is in progress: the Visit of main and the
\* Visit of the ticker goroutine never run together, the ticker goroutine
\* exists only after pass 0 has completed, and the batch is written only by
\* the one pass in progress.
C23_OnePassAtATime ==
  /\ ~(pc = "visiting" /\ tpc = "visiting")
  /\ tpc # "none" => (passes >= 1 /\ pc # "visiting")
  /\ pass.phase = "html"
       => \/ pass.by = "main" /\ pc = "visiting" /\ tpc = "none"
          \/ pass.by = "ticker" /\ tpc = "visiting"
  /\ pass.phase = "idle"
       => newEvents = <<>> /\ pc # "visiting" /\ tpc # "visiting"

\* the ticker goroutine is in a pass that has accepted a record
C23_Witness ==
  /\ tpc = "visiting" /\ pass.phase = "html" /\ pass.by = "ticker"
  /\ passes >= 1 /\ Len(newEvents) >= 1

====
